---- MODULE Spec2Model ----
(***************************************************************************)
(* ScoreGenie: the 88-key label table (labeling_to_numbers.py) and the     *)
(* MIDI -> WAV -> MP3 pipeline (midi_to_mp3.py).                           *)
(*                                                                         *)
(* A Python string is a sequence of one-character strings, so that         *)
(* slicing (note[:-1], note[-1]), formatting (f"{note_name}{octave}") and  *)
(* int() are modelled by what they do.                                     *)
(***************************************************************************)
EXTENDS Integers, Sequences, FiniteSets, TLC

VARIABLES
    \* ---- generate_all_piano_keys and its callers ----
    gpc,            \* position in the script: "loop", "generated", "df", ...
    octave,         \* loop variable of `for octave in octaves`
    ni,             \* 1-based index of note_name in note_names
    notes,          \* list `notes`
    labels,         \* list `labels`
    filtered,       \* notes dropped by `if 0 <= label <= 87` (history)
    swallowed,      \* notes dropped by `except: continue` (history)
    df,             \* the DataFrame rows of create_labeling_dataframe
    report,         \* what validate_labeling prints
    note_to_label,  \* dict built in __main__
    label_to_note,  \* dict built in __main__
    \* ---- one call of midi_note_to_key_number on an arbitrary string ----
    inp,            \* the argument `note`
    called,         \* whether the call has been made
    res,            \* the outcome of the call, once made
    \* ---- one call of midi_to_mp3 ----
    pc,             \* position in midi_to_mp3
    keep_wav,       \* argument keep_wav
    midi_exists,    \* os.path.isfile(midi_path)
    sf_exists,      \* os.path.isfile(soundfont_path)
    dir_state,      \* mp3_dir: "empty" (""), "exists" or "missing"
    wav_exists,     \* os.path.isfile(wav_path)
    mp3_exists,     \* os.path.isfile(output_mp3_path)
    log,            \* steps executed so far (history)
    result,         \* "running", "returned" or the exception raised
    run             \* history of the call: exit codes, files written, removal

keysVars == <<gpc, octave, ni, notes, labels, filtered, swallowed, df, report,
              note_to_label, label_to_note>>
noteVars == <<inp, called, res>>
mp3Vars  == <<pc, keep_wav, midi_exists, sf_exists, dir_state, wav_exists,
              mp3_exists, log, result, run>>
vars == <<keysVars, noteVars, mp3Vars>>

(***************************************************************************)
(* Python primitives                                                       *)
(***************************************************************************)
Digits == <<"0", "1", "2", "3", "4", "5", "6", "7", "8", "9">>

IsDigit(c) == \E d \in 1..Len(Digits) : Digits[d] = c

DigitVal(c) == (CHOOSE d \in 1..Len(Digits) : Digits[d] = c) - 1

\* str(n) for n >= 0: the decimal digits of n, most significant first.
RECURSIVE PyStr(_)
PyStr(n) == IF n < 10 THEN <<Digits[n + 1]>>
            ELSE PyStr(n \div 10) \o <<Digits[(n % 10) + 1]>>

Return(v) == [ok |-> TRUE, val |-> v]
Raise(e)  == [ok |-> FALSE, err |-> e]

\* int(s) for a one-character string s.
PyInt(c) == IF IsDigit(c) THEN Return(DigitVal(c)) ELSE Raise("ValueError")

\* dict(zip(keys, vals)): a later pair replaces an earlier one with the same key.
PyDictZip(keys, vals) ==
    LET n == IF Len(keys) < Len(vals) THEN Len(keys) ELSE Len(vals)
        last(k) == CHOOSE i \in 1..n :
                      /\ keys[i] = k
                      /\ \A j \in 1..n : keys[j] = k => j <= i
    IN [k \in {keys[i] : i \in 1..n} |-> vals[last(k)]]

(***************************************************************************)
(* labeling_to_numbers.py                                                  *)
(***************************************************************************)
note_map_B_as_10 ==
    (<<"C">> :> 0) @@ (<<"C", "#">> :> 1) @@ (<<"D">> :> 2) @@
    (<<"D", "#">> :> 3) @@ (<<"E">> :> 4) @@ (<<"F">> :> 5) @@
    (<<"F", "#">> :> 6) @@ (<<"G">> :> 7) @@ (<<"G", "#">> :> 8) @@
    (<<"A">> :> 9) @@ (<<"A", "#">> :> 10) @@ (<<"B">> :> 10)

note_map ==
    (<<"C">> :> 0) @@ (<<"C", "#">> :> 1) @@ (<<"D">> :> 2) @@
    (<<"D", "#">> :> 3) @@ (<<"E">> :> 4) @@ (<<"F">> :> 5) @@
    (<<"F", "#">> :> 6) @@ (<<"G">> :> 7) @@ (<<"G", "#">> :> 8) @@
    (<<"A">> :> 9) @@ (<<"A", "#">> :> 10) @@ (<<"B">> :> 11)

midi_number_off_by_octave(oct, offset) == oct * 12 + offset

midi_number(oct, offset) == (oct + 1) * 12 + offset

key_number_from_C1(mn) == mn - 24

key_number(mn) == mn - 21

midi_note_to_key_number_lenient(note) ==
    IF Len(note) = 0 THEN Raise("IndexError")
    ELSE LET note_name == SubSeq(note, 1, Len(note) - 1)
             oct == IF IsDigit(note[Len(note)]) THEN DigitVal(note[Len(note)]) ELSE 4
             off == IF note_name \in DOMAIN note_map THEN note_map[note_name] ELSE 0
         IN Return(key_number(midi_number(oct, off)))

midi_note_to_key_number(note) ==
    IF Len(note) = 0 THEN Raise("IndexError")
    ELSE LET note_name == SubSeq(note, 1, Len(note) - 1)
             oct == PyInt(note[Len(note)])
         IN IF ~oct.ok THEN oct
            ELSE IF note_name \notin DOMAIN note_map THEN Raise("KeyError")
            ELSE Return(key_number(midi_number(oct.val, note_map[note_name])))

octaves == 0..8

note_names_from_A == << <<"A">>, <<"A", "#">>, <<"B">>, <<"C">>, <<"C", "#">>, <<"D">>,
                        <<"D", "#">>, <<"E">>, <<"F">>, <<"F", "#">>, <<"G">>, <<"G", "#">> >>

note_names == << <<"C">>, <<"C", "#">>, <<"D">>, <<"D", "#">>, <<"E">>, <<"F">>,
                 <<"F", "#">>, <<"G">>, <<"G", "#">>, <<"A">>, <<"A", "#">>, <<"B">> >>

in_range_open_top(label) == 0 <= label

in_range(label) == 0 <= label /\ label <= 87

black_keys == { <<"C", "#">>, <<"D", "#">>, <<"F", "#">>, <<"G", "#">>, <<"A", "#">> }

Key_Type_sharp_letter(name) == IF Len(name) > 1 \/ name = <<"E">> THEN "Black" ELSE "White"

Key_Type(name) == IF name \in black_keys THEN "Black" ELSE "White"

InitKeys ==
    /\ gpc = "loop"
    /\ octave = 0
    /\ ni = 1
    /\ notes = <<>>
    /\ labels = <<>>
    /\ filtered = <<>>
    /\ swallowed = <<>>
    /\ df = <<>>
    /\ report = [count |-> -1, min |-> -1, max |-> -1, duplicates |-> -1, missing |-> {}]
    /\ note_to_label = <<>>
    /\ label_to_note = <<>>

\* One iteration of the inner loop body (lines 60-68).
GenStep ==
    /\ gpc = "loop"
    /\ octave \in octaves
    /\ LET note == note_names[ni] \o PyStr(octave)
           r == midi_note_to_key_number(note)
       IN /\ notes' = IF r.ok /\ in_range(r.val) THEN Append(notes, note) ELSE notes
          /\ labels' = IF r.ok /\ in_range(r.val) THEN Append(labels, r.val) ELSE labels
          /\ filtered' = IF r.ok /\ ~in_range(r.val) THEN Append(filtered, note) ELSE filtered
          /\ swallowed' = IF ~r.ok THEN Append(swallowed, note) ELSE swallowed
    /\ ni' = IF ni = Len(note_names) THEN 1 ELSE ni + 1
    /\ octave' = IF ni = Len(note_names) THEN octave + 1 ELSE octave
    /\ UNCHANGED <<gpc, df, report, note_to_label, label_to_note>>

\* The outer loop is exhausted: `return notes, labels` (line 70).
GenReturn ==
    /\ gpc = "loop"
    /\ octave \notin octaves
    /\ gpc' = "generated"
    /\ UNCHANGED <<octave, ni, notes, labels, filtered, swallowed, df, report,
                   note_to_label, label_to_note>>

\* create_labeling_dataframe: one row per generated note.
CreateDataframe ==
    /\ gpc = "generated"
    /\ df' = [i \in 1..Len(notes) |->
                [Note |-> notes[i],
                 Label |-> labels[i],
                 MIDI_Number |-> labels[i] + 21,
                 Octave |-> DigitVal(notes[i][Len(notes[i])]),
                 Note_Name |-> SubSeq(notes[i], 1, Len(notes[i]) - 1),
                 Key_Type |-> "unset"]]
    /\ gpc' = "df"
    /\ UNCHANGED <<octave, ni, notes, labels, filtered, swallowed, report,
                   note_to_label, label_to_note>>

\* validate_labeling: count, min, max, duplicated labels, missing labels.
ValidateLabeling ==
    /\ gpc = "df"
    /\ LET L == {df[i].Label : i \in 1..Len(df)}
       IN report' = [count |-> Len(df),
                     min |-> CHOOSE m \in L : \A x \in L : m <= x,
                     max |-> CHOOSE m \in L : \A x \in L : x <= m,
                     duplicates |-> Cardinality({i \in 1..Len(df) :
                                        \E j \in 1..(i - 1) : df[j].Label = df[i].Label}),
                     missing |-> (0..87) \ L]
    /\ gpc' = "validated"
    /\ UNCHANGED <<octave, ni, notes, labels, filtered, swallowed, df,
                   note_to_label, label_to_note>>

\* visualize_piano_mapping: the Key_Type column (lines 95-96).
Classify ==
    /\ gpc = "validated"
    /\ df' = [i \in 1..Len(df) |-> [df[i] EXCEPT !.Key_Type = Key_Type(df[i].Note_Name)]]
    /\ gpc' = "classified"
    /\ UNCHANGED <<octave, ni, notes, labels, filtered, swallowed, report,
                   note_to_label, label_to_note>>

\* __main__: the two dictionaries (lines 183-184).
BuildDicts ==
    /\ gpc = "classified"
    /\ note_to_label' = PyDictZip([i \in 1..Len(df) |-> df[i].Note],
                                  [i \in 1..Len(df) |-> df[i].Label])
    /\ label_to_note' = PyDictZip([i \in 1..Len(df) |-> df[i].Label],
                                  [i \in 1..Len(df) |-> df[i].Note])
    /\ gpc' = "dicts"
    /\ UNCHANGED <<octave, ni, notes, labels, filtered, swallowed, df, report>>

IdleKeys == InitKeys

(***************************************************************************)
(* midi_note_to_key_number on arbitrary strings                            *)
(***************************************************************************)
MaxLen == 3

Alphabet == {"C", "D", "E", "F", "G", "A", "B", "#", "H",
             "0", "1", "2", "3", "4", "5", "6", "7", "8", "9"}

Inputs == UNION {[1..n -> Alphabet] : n \in 0..MaxLen}

IdleNote ==
    /\ inp = <<>>
    /\ called = FALSE
    /\ res = Raise("NotCalled")

InitNote ==
    /\ inp \in Inputs
    /\ called = FALSE
    /\ res = Raise("NotCalled")

CallNote ==
    /\ ~called
    /\ called' = TRUE
    /\ res' = midi_note_to_key_number(inp)
    /\ UNCHANGED inp

(***************************************************************************)
(* midi_to_mp3.py                                                          *)
(***************************************************************************)
MaxExitCode == 2

ExitCodes == 0..MaxExitCode

\* subprocess.run(..., check=True) raises CalledProcessError on this.
check_raises_never(rc) == FALSE

check_raises(rc) == rc # 0

remove_wanted_always(keep) == TRUE

remove_wanted(keep) == ~keep

NoRun == [synth_calls |-> 0, synth_started |-> FALSE, synth_rc |-> 0, wav_written |-> FALSE,
          enc_calls |-> 0, enc_started |-> FALSE, enc_rc |-> 0, mp3_written |-> FALSE,
          wav_found |-> FALSE, mp3_found |-> FALSE,
          remove_calls |-> 0, remove_failed |-> FALSE, warned |-> FALSE]

IdleMp3 ==
    /\ pc = "done"
    /\ keep_wav = FALSE
    /\ midi_exists = FALSE
    /\ sf_exists = FALSE
    /\ dir_state = "empty"
    /\ wav_exists = FALSE
    /\ mp3_exists = FALSE
    /\ log = <<>>
    /\ result = "idle"
    /\ run = NoRun

\* The call starts in any file system: the inputs present or not, the output
\* directory present or not, files of an earlier run at wav_path and
\* output_mp3_path or not (none inside a directory that does not exist).
InitMp3 ==
    /\ pc = "check_midi"
    /\ keep_wav \in BOOLEAN
    /\ midi_exists \in BOOLEAN
    /\ sf_exists \in BOOLEAN
    /\ dir_state \in {"empty", "exists", "missing"}
    /\ wav_exists \in BOOLEAN
    /\ mp3_exists \in BOOLEAN
    /\ dir_state = "missing" => ~wav_exists /\ ~mp3_exists
    /\ log = <<>>
    /\ result = "running"
    /\ run = NoRun

\* Lines 25-26.
CheckMidi ==
    /\ pc = "check_midi"
    /\ log' = Append(log, "check_midi")
    /\ IF midi_exists
         THEN pc' = "check_sf" /\ UNCHANGED result
         ELSE pc' = "done" /\ result' = "FileNotFoundError: midi"
    /\ UNCHANGED <<keep_wav, midi_exists, sf_exists, dir_state, wav_exists, mp3_exists, run>>

\* Lines 27-28.
CheckSoundfont ==
    /\ pc = "check_sf"
    /\ log' = Append(log, "check_sf")
    /\ IF sf_exists
         THEN pc' = "makedirs" /\ UNCHANGED result
         ELSE pc' = "done" /\ result' = "FileNotFoundError: soundfont"
    /\ UNCHANGED <<keep_wav, midi_exists, sf_exists, dir_state, wav_exists, mp3_exists, run>>

\* Lines 31-33: os.makedirs runs only for a non-empty, missing mp3_dir, and
\* either creates it or raises OSError.
MakeDirs ==
    /\ pc = "makedirs"
    /\ IF dir_state = "missing"
         THEN /\ log' = Append(log, "makedirs")
              /\ \E created \in BOOLEAN :
                    IF created
                      THEN dir_state' = "exists" /\ pc' = "synth" /\ UNCHANGED result
                      ELSE pc' = "done" /\ result' = "OSError: makedirs" /\ UNCHANGED dir_state
         ELSE pc' = "synth" /\ UNCHANGED <<log, dir_state, result>>
    /\ UNCHANGED <<keep_wav, midi_exists, sf_exists, wav_exists, mp3_exists, run>>

\* Lines 49-54: subprocess.run(fluidsynth_cmd, check=True). The program either
\* cannot be started (the executable is missing) or runs, writes wav_path or
\* not, and exits with some code.
RunFluidsynth ==
    /\ pc = "synth"
    /\ log' = Append(log, "synth")
    /\ \E started \in BOOLEAN, rc \in ExitCodes, wrote \in BOOLEAN :
          /\ ~started => rc = 0 /\ ~wrote
          /\ run' = [run EXCEPT !.synth_calls = @ + 1, !.synth_started = started,
                                !.synth_rc = rc, !.wav_written = wrote]
          /\ wav_exists' = (wav_exists \/ wrote)
          /\ IF ~started
               THEN pc' = "done" /\ result' = "FileNotFoundError: fluidsynth"
               ELSE IF check_raises(rc)
                 THEN pc' = "done" /\ result' = "CalledProcessError: fluidsynth"
                 ELSE pc' = "check_wav" /\ UNCHANGED result
    /\ UNCHANGED <<keep_wav, midi_exists, sf_exists, dir_state, mp3_exists>>

\* Lines 57-59.
CheckWav ==
    /\ pc = "check_wav"
    /\ log' = Append(log, "check_wav")
    /\ run' = [run EXCEPT !.wav_found = wav_exists]
    /\ IF wav_exists
         THEN pc' = "encode" /\ UNCHANGED result
         ELSE pc' = "done" /\ result' = "FileNotFoundError: wav"
    /\ UNCHANGED <<keep_wav, midi_exists, sf_exists, dir_state, wav_exists, mp3_exists>>

\* Lines 71-76: subprocess.run(ffmpeg_cmd, check=True).
RunFfmpeg ==
    /\ pc = "encode"
    /\ log' = Append(log, "encode")
    /\ \E started \in BOOLEAN, rc \in ExitCodes, wrote \in BOOLEAN :
          /\ ~started => rc = 0 /\ ~wrote
          /\ run' = [run EXCEPT !.enc_calls = @ + 1, !.enc_started = started,
                                !.enc_rc = rc, !.mp3_written = wrote]
          /\ mp3_exists' = (mp3_exists \/ wrote)
          /\ IF ~started
               THEN pc' = "done" /\ result' = "FileNotFoundError: ffmpeg"
               ELSE IF check_raises(rc)
                 THEN pc' = "done" /\ result' = "CalledProcessError: ffmpeg"
                 ELSE pc' = "check_mp3" /\ UNCHANGED result
    /\ UNCHANGED <<keep_wav, midi_exists, sf_exists, dir_state, wav_exists>>

\* Lines 79-81.
CheckMp3 ==
    /\ pc = "check_mp3"
    /\ log' = Append(log, "check_mp3")
    /\ run' = [run EXCEPT !.mp3_found = mp3_exists]
    /\ IF mp3_exists
         THEN pc' = "cleanup" /\ UNCHANGED result
         ELSE pc' = "done" /\ result' = "FileNotFoundError: mp3"
    /\ UNCHANGED <<keep_wav, midi_exists, sf_exists, dir_state, wav_exists, mp3_exists>>

\* Lines 84-89: os.remove(wav_path) inside try/except Exception. The removal
\* succeeds only on an existing file and may fail on any (a locked file, a
\* read-only directory); a failure is printed as a warning and swallowed.
Cleanup ==
    /\ pc = "cleanup"
    /\ IF remove_wanted(keep_wav)
         THEN /\ log' = Append(log, "remove_wav")
              /\ \E removed \in BOOLEAN :
                    /\ removed => wav_exists
                    /\ wav_exists' = IF removed THEN FALSE ELSE wav_exists
                    /\ run' = [run EXCEPT !.remove_calls = @ + 1,
                                          !.remove_failed = ~removed,
                                          !.warned = ~removed]
         ELSE UNCHANGED <<log, wav_exists, run>>
    /\ pc' = "return"
    /\ UNCHANGED <<keep_wav, midi_exists, sf_exists, dir_state, mp3_exists, result>>

\* Line 91.
ReturnPath ==
    /\ pc = "return"
    /\ pc' = "done"
    /\ result' = "returned"
    /\ UNCHANGED <<keep_wav, midi_exists, sf_exists, dir_state, wav_exists, mp3_exists,
                   log, run>>

(***************************************************************************)
(* Specifications                                                          *)
(***************************************************************************)
NextKeys ==
    \/ GenStep /\ UNCHANGED <<noteVars, mp3Vars>>
    \/ GenReturn /\ UNCHANGED <<noteVars, mp3Vars>>
    \/ CreateDataframe /\ UNCHANGED <<noteVars, mp3Vars>>
    \/ ValidateLabeling /\ UNCHANGED <<noteVars, mp3Vars>>
    \/ Classify /\ UNCHANGED <<noteVars, mp3Vars>>
    \/ BuildDicts /\ UNCHANGED <<noteVars, mp3Vars>>

InitKeysSpec == InitKeys /\ IdleNote /\ IdleMp3

SpecKeys == InitKeysSpec /\ [][NextKeys]_vars

NextNote == CallNote /\ UNCHANGED <<keysVars, mp3Vars>>

InitNoteSpec == IdleKeys /\ InitNote /\ IdleMp3

SpecNote == InitNoteSpec /\ [][NextNote]_vars

NextMp3 ==
    \/ CheckMidi /\ UNCHANGED <<keysVars, noteVars>>
    \/ CheckSoundfont /\ UNCHANGED <<keysVars, noteVars>>
    \/ MakeDirs /\ UNCHANGED <<keysVars, noteVars>>
    \/ RunFluidsynth /\ UNCHANGED <<keysVars, noteVars>>
    \/ CheckWav /\ UNCHANGED <<keysVars, noteVars>>
    \/ RunFfmpeg /\ UNCHANGED <<keysVars, noteVars>>
    \/ CheckMp3 /\ UNCHANGED <<keysVars, noteVars>>
    \/ Cleanup /\ UNCHANGED <<keysVars, noteVars>>
    \/ ReturnPath /\ UNCHANGED <<keysVars, noteVars>>

InitMp3Spec == IdleKeys /\ IdleNote /\ InitMp3

SpecMp3 == InitMp3Spec /\ [][NextMp3]_vars

(***************************************************************************)
(* Properties                                                              *)
(***************************************************************************)
Generated == gpc # "loop"

Validated == gpc \in {"validated", "classified", "dicts"}

Range(seq) == {seq[i] : i \in 1..Len(seq)}

\* The chromatic scale with the semitone offset of each token: C = 0, ..., B = 11.
Chromatic == << <<"C">>, <<"C", "#">>, <<"D">>, <<"D", "#">>, <<"E">>, <<"F">>,
                <<"F", "#">>, <<"G">>, <<"G", "#">>, <<"A">>, <<"A", "#">>, <<"B">> >>

Pitch(i, o) == Chromatic[i] \o <<Digits[o + 1]>>

ExpectedLabel(i, o) == (o + 1) * 12 + (i - 1) - 21

\* C1: generate_all_piano_keys returns exactly 88 pairs whose labels are exactly
\* 0..87, each once; validate_labeling then reports count 88, min 0, max 87,
\* no duplicate and no missing label.
C1_Exactly88Labels ==
    /\ Generated =>
          /\ Len(notes) = 88
          /\ Len(labels) = 88
          /\ Range(labels) = 0..87
          /\ \A i, j \in 1..Len(labels) : labels[i] = labels[j] => i = j
    /\ Validated =>
          report = [count |-> 88, min |-> 0, max |-> 87, duplicates |-> 0, missing |-> {}]

C1_Witness == Validated /\ report.count = 88 /\ Len(labels) = 88

\* C2: the mapping is a bijection between the 88 retained pitch names and 0..87:
\* no name twice, one name per label, both dictionaries have 88 entries and are
\* inverse to each other.
C2_Bijection ==
    /\ Generated =>
          /\ \A i, j \in 1..Len(notes) : notes[i] = notes[j] => i = j
          /\ \A k \in 0..87 : Cardinality({i \in 1..Len(labels) : labels[i] = k}) = 1
    /\ gpc = "dicts" =>
          /\ Cardinality(DOMAIN note_to_label) = 88
          /\ Cardinality(DOMAIN label_to_note) = 88
          /\ DOMAIN note_to_label = Range(notes)
          /\ DOMAIN label_to_note = 0..87
          /\ \A n \in Range(notes) : label_to_note[note_to_label[n]] = n
          /\ \A k \in 0..87 : note_to_label[label_to_note[k]] = k

C2_Witness ==
    /\ gpc = "dicts"
    /\ Cardinality(DOMAIN note_to_label) = 88
    /\ label_to_note[note_to_label[<<"A", "4">>]] = <<"A", "4">>

\* C3: for each of the 12 tokens (offset C = 0, ..., B = 11) and each octave
\* digit 0..8 the call returns (octave + 1) * 12 + offset - 21; in particular
\* A0 -> 0, C4 -> 39, A4 -> 48, C8 -> 87.
C3_LabelFormula ==
    called =>
       /\ \A i \in 1..12, o \in 0..8 :
             inp = Pitch(i, o) => res = Return(ExpectedLabel(i, o))
       /\ inp = <<"A", "0">> => res = Return(0)
       /\ inp = <<"C", "4">> => res = Return(39)
       /\ inp = <<"A", "4">> => res = Return(48)
       /\ inp = <<"C", "8">> => res = Return(87)

C3_Witness == called /\ inp = <<"G", "#", "7">> /\ res = Return(ExpectedLabel(9, 7))

\* C4: the call fails, and returns no label, whenever the note token (all
\* characters before the last) is not one of the 12 names or the octave segment
\* is not a single digit, e.g. "H4" and "C".
MalformedPitch(note) ==
    \/ Len(note) = 0
    \/ SubSeq(note, 1, Len(note) - 1) \notin Range(Chromatic)
    \/ ~IsDigit(note[Len(note)])

C4_MalformedRejected ==
    called =>
       /\ MalformedPitch(inp) =>
             res \in {Raise("IndexError"), Raise("ValueError"), Raise("KeyError")}
       /\ inp = <<"H", "4">> => ~res.ok
       /\ inp = <<"C">> => ~res.ok

C4_Witness == called /\ inp = <<"H", "4">> /\ res = Raise("KeyError")

\* C5: of the 108 combinations a combination is retained iff its label lies in
\* 0..87; exactly 20 are dropped, C0..G#0 and C#8..B8, each by the range filter;
\* the catch-all handler never drops one.
C5_FilterOnly ==
    /\ swallowed = <<>>
    /\ Len(notes) + Len(filtered) = (IF Generated THEN 108 ELSE octave * 12 + (ni - 1))
    /\ Generated =>
          /\ \A i \in 1..12, o \in 0..8 :
                /\ Pitch(i, o) \in Range(notes) <=> ExpectedLabel(i, o) \in 0..87
                /\ Pitch(i, o) \in Range(filtered) <=> ExpectedLabel(i, o) \notin 0..87
          /\ filtered = [k \in 1..20 |-> IF k <= 9 THEN Pitch(k, 0) ELSE Pitch(k - 8, 8)]

C5_Witness == Generated /\ Len(filtered) = 20 /\ filtered[9] = <<"G", "#", "0">>

\* C6: black iff the token is one of C#, D#, F#, G#, A#: 36 black, 52 white.
C6_BlackWhite ==
    gpc \in {"classified", "dicts"} =>
       /\ Cardinality({i \in 1..Len(df) : df[i].Key_Type = "Black"}) = 36
       /\ Cardinality({i \in 1..Len(df) : df[i].Key_Type = "White"}) = 52
       /\ \A i \in 1..Len(df) :
             df[i].Key_Type = "Black" <=>
                SubSeq(df[i].Note, 1, Len(df[i].Note) - 1) \in
                   { <<"C", "#">>, <<"D", "#">>, <<"F", "#">>, <<"G", "#">>, <<"A", "#">> }

C6_Witness ==
    /\ gpc = "classified"
    /\ Len(df) = 88
    /\ \E i \in 1..Len(df) : df[i].Key_Type = "Black"

\* C9: the labels appended so far are 0, 1, ..., n-1 in that order at every
\* point of the generation, and the result holds label i at position i.
C9_AscendingLabels ==
    /\ labels = [i \in 1..Len(labels) |-> i - 1]
    /\ Len(notes) = Len(labels)
    /\ Generated => Len(labels) = 88

C9_Witness == gpc = "loop" /\ Len(labels) = 40 /\ labels[40] = 39

(***************************************************************************)
(* Properties of midi_to_mp3                                               *)
(***************************************************************************)
Failed == result \notin {"idle", "running", "returned"}

\* The steps the pipeline is described by, in order.
Order == <<"check_midi", "check_sf", "synth", "check_wav", "encode", "check_mp3",
           "remove_wav">>

Steps == SelectSeq(log, LAMBDA s : s # "makedirs")

IsPrefix(s, t) == Len(s) <= Len(t) /\ s = SubSeq(t, 1, Len(s))

\* C7: the call ends in an error whenever a stage does not produce its artifact
\* (missing MIDI, missing soundfont, non-zero exit of either program, synthesis
\* not producing the WAV, encoding not producing the MP3), and returns only when
\* the MP3 exists.
C7_UnproducedArtifactRaises ==
    result = "returned" =>
       /\ midi_exists
       /\ sf_exists
       /\ run.synth_started /\ run.synth_rc = 0
       /\ run.enc_started /\ run.enc_rc = 0
       /\ run.wav_written
       /\ run.mp3_written
       /\ mp3_exists

\* What the code does check: a file absent at wav_path after synthesis, or at
\* output_mp3_path after encoding, ends the call with an error.
C7_AbsentArtifactRaises ==
    result = "returned" =>
       /\ midi_exists
       /\ sf_exists
       /\ run.synth_started /\ run.synth_rc = 0
       /\ run.enc_started /\ run.enc_rc = 0
       /\ run.wav_found
       /\ run.mp3_found
       /\ mp3_exists

\* C8: the steps run in the fixed order, the first failing step aborts the call,
\* no program runs when an input is missing, the encoder runs only after a
\* zero exit of the synthesis and a found WAV, and each program runs at most once.
C8_FixedOrder ==
    /\ IsPrefix(Steps, Order)
    /\ run.synth_calls <= 1 /\ run.enc_calls <= 1
    /\ (~midi_exists \/ ~sf_exists) => run.synth_calls = 0 /\ run.enc_calls = 0
    /\ run.enc_calls > 0 => run.synth_started /\ run.synth_rc = 0 /\ run.wav_found
    /\ Failed => pc = "done"
    /\ result = "FileNotFoundError: midi" => Steps = SubSeq(Order, 1, 1)
    /\ result = "FileNotFoundError: soundfont" => Steps = SubSeq(Order, 1, 2)
    /\ result = "OSError: makedirs" => Steps = SubSeq(Order, 1, 2)
    /\ result \in {"FileNotFoundError: fluidsynth", "CalledProcessError: fluidsynth"} =>
          Steps = SubSeq(Order, 1, 3)
    /\ result = "FileNotFoundError: wav" => Steps = SubSeq(Order, 1, 4)
    /\ result \in {"FileNotFoundError: ffmpeg", "CalledProcessError: ffmpeg"} =>
          Steps = SubSeq(Order, 1, 5)
    /\ result = "FileNotFoundError: mp3" => Steps = SubSeq(Order, 1, 6)
    /\ result = "returned" => Len(Steps) >= 6

C8_Witness == result = "returned" /\ Steps = Order /\ run.enc_calls = 1

\* C10 as stated: with keep_wav false a successful return leaves no WAV file at
\* wav_path; with keep_wav true, and in every failed call, the WAV is not deleted.
C10_WavGoneAfterSuccess ==
    /\ (result = "returned" /\ ~keep_wav) => ~wav_exists
    /\ keep_wav => run.remove_calls = 0
    /\ Failed => run.remove_calls = 0

\* C10 amended: with keep_wav false a successful return has tried the removal
\* exactly once; the WAV is gone if the removal succeeded and is still there,
\* with a warning printed, if it failed. With keep_wav true, and in every failed
\* call, the removal is never tried and a WAV that was found is still there.
C10_BestEffortRemoval ==
    /\ (result = "returned" /\ ~keep_wav) =>
          /\ run.remove_calls = 1
          /\ ~run.remove_failed => ~wav_exists
          /\ run.remove_failed => wav_exists /\ run.warned
    /\ keep_wav => run.remove_calls = 0 /\ (run.wav_found => wav_exists)
    /\ Failed => run.remove_calls = 0 /\ (run.wav_found => wav_exists)

C10_Witness ==
    /\ result = "returned"
    /\ ~keep_wav
    /\ run.remove_failed
    /\ wav_exists

====
